---- MODULE Spec2Model ----
(***************************************************************************)
(* Model of the AIJobSearch services:                                      *)
(*   - clean_json_string and POST /search   (src/ai-job-finder/app.py)     *)
(*   - POST /api/analyze retry loop         (src/backend/main.py)          *)
(*   - the worker and its Firestore saver   (src/backend/job_finder.py)    *)
(* Text is a sequence of one-character strings, so that the string         *)
(* operations of the code (strip, startswith, find, slicing) are computed  *)
(* as Python computes them.                                                *)
(***************************************************************************)
EXTENDS Integers, Sequences, FiniteSets, TLC

VARIABLES
    lead,        \* sanitizer: the opening fence of the text, <<>> when unfenced
    body,        \* sanitizer: the text between the fences
    text,        \* sanitizer: the argument of clean_json_string
    cleaned,     \* sanitizer: [done, once, twice], the results of one and two calls
    apiKeySet,   \* app.py: GEMINI_API_KEY was present at process start
    client,      \* app.py: the module-level client is not None
    request,     \* app.py: body of the last POST /search
    modelReply,  \* app.py: what generate_content did for the last request
    response,    \* app.py: response of the last POST /search
    searchCalls, \* app.py: outbound model calls made by the last request
    mainClient,  \* main.py: the module-level client is not None
    pc,          \* main.py: position of analyze_job_lead
    attempt,     \* main.py: loop variable of the retry loop
    hist,        \* main.py: outcome of every model call made so far
    sleeps,      \* main.py: every time.sleep duration so far
    result,      \* main.py: how analyze_job_lead ended
    jobLeads,    \* job_finder.py: the argument of save_to_firestore
    saved,       \* job_finder.py: [ended, writes, raised] of save_to_firestore
    workerKeySet, \* job_finder.py: API_KEY is set
    workerReply, \* job_finder.py: what the model call of the worker did
    workerRun    \* job_finder.py: [ended, log, raised] of generate_job_leads

vars == <<lead, body, text, cleaned, apiKeySet, client, request, modelReply, response,
          searchCalls, mainClient, pc, attempt, hist, sleeps, result,
          jobLeads, saved, workerKeySet, workerReply, workerRun>>

cleanVars  == <<lead, body, text, cleaned>>
searchVars == <<apiKeySet, client, request, modelReply, response, searchCalls>>
retryVars  == <<mainClient, pc, attempt, hist, sleeps, result>>
saveVars   == <<jobLeads, saved>>
workerVars == <<workerKeySet, workerReply, workerRun>>

(***************************************************************************)
(* Bounds                                                                  *)
(***************************************************************************)
MaxBody == 4      \* longest body placed between the optional fences
MaxReply == 5     \* longest JSON body of a model reply
MaxLeads == 4     \* longest list handed to save_to_firestore

(***************************************************************************)
(* The state of a service that takes no part in a specification            *)
(***************************************************************************)
NotCleaned == [done |-> FALSE, once |-> <<>>, twice |-> <<>>]

NoReply == [kind |-> "none", text |-> <<>>]

NoResponse == [status |-> 0, kind |-> "none", jobs |-> <<>>, found |-> 0]

NoResult == [kind |-> "none", value |-> 0, cause |-> "none"]

NotSaved == [ended |-> FALSE, writes |-> <<>>, raised |-> FALSE]

NotRun == [ended |-> FALSE, log |-> <<>>, raised |-> FALSE]

IdleClean == lead = <<>> /\ body = <<>> /\ text = <<>> /\ cleaned = NotCleaned

IdleSearch ==
    /\ apiKeySet = FALSE
    /\ client = FALSE
    /\ request = [hasQuery |-> FALSE, query |-> ""]
    /\ modelReply = NoReply
    /\ response = NoResponse
    /\ searchCalls = 0

IdleAnalyze ==
    /\ mainClient = FALSE
    /\ pc = "idle"
    /\ attempt = 0
    /\ hist = <<>>
    /\ sleeps = <<>>
    /\ result = NoResult

IdleSave == jobLeads = <<>> /\ saved = NotSaved

IdleWorker == workerKeySet = FALSE /\ workerReply = NoReply /\ workerRun = NotRun

(***************************************************************************)
(* Python string primitives                                                *)
(***************************************************************************)
\* the backtick character (the lexer of TLA+ reserves it, so it is named)
Backtick == "BACKTICK"

Fence == <<Backtick, Backtick, Backtick>>

Whitespace == {" ", "\n", "\t"}

Min(a, b) == IF a <= b THEN a ELSE b

Max(a, b) == IF a >= b THEN a ELSE b

\* str.find(c): 0-based index of the first occurrence, -1 when absent
Find(s, c) ==
    IF \E i \in 1..Len(s) : s[i] = c
    THEN (CHOOSE i \in 1..Len(s) : s[i] = c /\ \A j \in 1..(i-1) : s[j] # c) - 1
    ELSE -1

\* s[start:] with the Python treatment of negative and oversized indexes
SliceFrom(s, start) ==
    LET from == IF start < 0 THEN Max(Len(s) + start, 0) ELSE Min(start, Len(s))
    IN  SubSeq(s, from + 1, Len(s))

\* s[:-n]
DropLast(s, n) == SubSeq(s, 1, Len(s) - n)

StartsWith(s, p) == Len(s) >= Len(p) /\ SubSeq(s, 1, Len(p)) = p

EndsWith(s, p) == Len(s) >= Len(p) /\ SubSeq(s, Len(s) - Len(p) + 1, Len(s)) = p

\* str.strip()
Strip(s) ==
    IF \A i \in 1..Len(s) : s[i] \in Whitespace
    THEN <<>>
    ELSE LET first == CHOOSE i \in 1..Len(s) :
                         s[i] \notin Whitespace /\ \A j \in 1..(i-1) : s[j] \in Whitespace
             last  == CHOOSE i \in 1..Len(s) :
                         s[i] \notin Whitespace /\ \A j \in (i+1)..Len(s) : s[j] \in Whitespace
         IN  SubSeq(s, first, last)

(***************************************************************************)
(* clean_json_string (app.py)                                              *)
(***************************************************************************)
\* the opening fence dropped as three characters, whatever follows it
StripLeadingFence_marker(t) ==
    IF StartsWith(t, Fence) THEN Strip(SliceFrom(t, 3)) ELSE t

\* lines 43-50: drop the opening fence through the first line break
StripLeadingFence(t) ==
    IF StartsWith(t, Fence)
    THEN LET start == Find(t, "\n")
         IN  IF start # -1 THEN Strip(SliceFrom(t, start))
                           ELSE Strip(SliceFrom(t, 3))
    ELSE t

\* lines 52-53: drop a closing fence
StripTrailingFence(t) ==
    IF EndsWith(t, Fence) THEN DropLast(t, Len(Fence)) ELSE t

\* lines 60-63
json_start(t) == Min(Find(t, "["), Find(t, "{"))

\* the test of line 64 written as json_start != 0
StripPreamble_nonzero(t) ==
    IF t # <<>> /\ t[1] \notin {"[", "{"}
    THEN IF json_start(t) # 0 THEN SliceFrom(t, json_start(t)) ELSE t
    ELSE t

\* lines 57-67: drop a preamble in front of the JSON structure
StripPreamble(t) ==
    IF t # <<>> /\ t[1] \notin {"[", "{"}
    THEN IF json_start(t) > 0 THEN SliceFrom(t, json_start(t)) ELSE t
    ELSE t

clean_json_string(t) ==
    Strip(StripPreamble(StripTrailingFence(StripLeadingFence(Strip(t)))))

(***************************************************************************)
(* Inputs of the sanitizer                                                 *)
(***************************************************************************)
Alphabet == {Backtick, "\n", " ", "[", "{", "x"}

SeqsUpTo(S, n) == UNION {[1..k -> S] : k \in 0..n}

Bodies == SeqsUpTo(Alphabet, MaxBody)

\* an opening fence: bare, as a line, as a line with a language tag
Leads == {Fence, Fence \o <<"\n">>, Fence \o <<"j", "\n">>}

\* the text made of an opening fence, a body and a closing fence, or the
\* bare body when there is no opening fence
Compose(l, b) == IF l = <<>> THEN b ELSE l \o b \o Fence

InitClean ==
    /\ lead \in Leads \cup {<<>>}
    /\ body \in Bodies
    /\ text = Compose(lead, body)
    /\ cleaned = NotCleaned
    /\ IdleSearch /\ IdleAnalyze /\ IdleSave /\ IdleWorker

\* one call of clean_json_string on the text, and a second one on its result
Clean ==
    /\ ~cleaned.done
    /\ cleaned' = [done  |-> TRUE,
                   once  |-> clean_json_string(text),
                   twice |-> clean_json_string(clean_json_string(text))]
    /\ UNCHANGED <<lead, body, text, searchVars, retryVars, saveVars, workerVars>>

(***************************************************************************)
(* json.loads, restricted to the characters of JsonAlphabet: arrays,       *)
(* empty objects and integers written with the digit 1                     *)
(***************************************************************************)
JsonAlphabet == {"[", "]", "{", "}", ",", "1"}

JsonWhitespace == {" ", "\n", "\t", "\r"}

JNone == [t |-> "none", n |-> 0, items |-> <<>>]

JObj == [t |-> "obj", n |-> 0, items |-> <<>>]

JNum(v) == [t |-> "num", n |-> v, items |-> <<>>]

JArr(xs) == [t |-> "arr", n |-> 0, items |-> xs]

ParseFail == [ok |-> FALSE, val |-> JNone, end |-> 0]

ParseOk(v, e) == [ok |-> TRUE, val |-> v, end |-> e]

\* the first position at or after i that holds no whitespace (Len(s)+1 if none)
SkipWs(s, i) ==
    CHOOSE j \in i..(Len(s) + 1) :
        /\ j = Len(s) + 1 \/ s[j] \notin JsonWhitespace
        /\ \A k \in i..(j-1) : s[k] \in JsonWhitespace

\* the position after the run of digits that starts at i
DigitsEnd(s, i) ==
    CHOOSE j \in (i+1)..(Len(s) + 1) :
        /\ j = Len(s) + 1 \/ s[j] # "1"
        /\ \A k \in i..(j-1) : s[k] = "1"

RECURSIVE Ones(_)
Ones(k) == IF k = 0 THEN 0 ELSE 10 * Ones(k - 1) + 1

RECURSIVE ParseValue(_, _), ParseItems(_, _, _)
ParseValue(s, i) ==
    IF i > Len(s) THEN ParseFail
    ELSE CASE s[i] = "[" ->
                LET j == SkipWs(s, i + 1)
                IN  IF j <= Len(s) /\ s[j] = "]"
                    THEN ParseOk(JArr(<<>>), j + 1)
                    ELSE ParseItems(s, j, <<>>)
           [] s[i] = "{" ->
                LET j == SkipWs(s, i + 1)
                IN  IF j <= Len(s) /\ s[j] = "}"
                    THEN ParseOk(JObj, j + 1)
                    ELSE ParseFail
           [] s[i] = "1" ->
                ParseOk(JNum(Ones(DigitsEnd(s, i) - i)), DigitsEnd(s, i))
           [] OTHER -> ParseFail

ParseItems(s, i, acc) ==
    LET v == ParseValue(s, i)
    IN  IF ~v.ok THEN ParseFail
        ELSE LET j == SkipWs(s, v.end)
             IN  IF j > Len(s) THEN ParseFail
                 ELSE IF s[j] = "]" THEN ParseOk(JArr(Append(acc, v.val)), j + 1)
                 ELSE IF s[j] = "," THEN ParseItems(s, SkipWs(s, j + 1), Append(acc, v.val))
                 ELSE ParseFail

\* json.loads(s): ok = FALSE stands for JSONDecodeError
json_loads(s) ==
    LET v == ParseValue(s, SkipWs(s, 1))
    IN  IF v.ok /\ SkipWs(s, v.end) > Len(s) THEN v ELSE ParseFail

(***************************************************************************)
(* POST /search (app.py)                                                   *)
(***************************************************************************)
Queries == {"", "climate tech remote"}

\* request.json: the query key may be missing
Requests == [hasQuery : {TRUE}, query : Queries] \cup {[hasQuery |-> FALSE, query |-> ""]}

\* a missing key read as a match-everything query
QueryGet_wildcard(data) == IF data.hasQuery THEN data.query ELSE "*"

\* line 87: data.get('query', '')
QueryGet(data) == IF data.hasQuery THEN data.query ELSE ""

\* line 89: not search_query
IsEmptyQuery(q) == q = ""

ReplyBodies == SeqsUpTo(JsonAlphabet, MaxReply)

\* what the model sends: bare JSON text, the text in a fenced block, the
\* text after a few words of prose
ReplyTexts ==
    ReplyBodies
    \cup {Fence \o <<"j", "\n">> \o b \o <<"\n">> \o Fence : b \in ReplyBodies}
    \cup {<<"x", " ">> \o b : b \in ReplyBodies}

\* generate_content returns a response with text, returns a response whose
\* text is None, raises APIError, or raises another exception
ModelReplies ==
    [kind : {"text"}, text : ReplyTexts]
    \cup [kind : {"no_text", "APIError", "OtherError"}, text : {<<>>}]

ErrorResponse(status, kind) == [status |-> status, kind |-> kind, jobs |-> <<>>, found |-> 0]

\* line 141: isinstance(jobs, list)
IsList(v) == v.t = "arr"

\* line 148: the success body; found is the number in the message
\* "Search successful. Found {len(jobs)} leads."
SuccessResponse(jobs) ==
    [status |-> 200, kind |-> "ok", jobs |-> jobs.items, found |-> Len(jobs.items)]

\* the text of the reply parsed as it came, without clean_json_string
ParseReply_raw(replyText) ==
    LET parsed == json_loads(replyText)
    IN  IF ~parsed.ok \/ ~IsList(parsed.val)
        THEN ErrorResponse(500, "malformed")
        ELSE SuccessResponse(parsed.val)

\* lines 131-148: clean, parse and validate the text of the reply
ParseReply(replyText) ==
    LET parsed == json_loads(clean_json_string(replyText))
    IN  IF ~parsed.ok \/ ~IsList(parsed.val)
        THEN ErrorResponse(500, "malformed")
        ELSE SuccessResponse(parsed.val)

\* lines 84, 90, 146, 152, 155: the error text of each kind of response
ErrorMessage(kind) ==
    CASE kind = "not_initialized" -> "Gemini client not initialized. Check GEMINI_API_KEY."
      [] kind = "empty_query"     -> "Search query cannot be empty."
      [] kind = "malformed"       -> "AI returned malformed or non-array content. Raw response logged to console. Please try a more specific query."
      [] kind = "api_failed"      -> "Gemini API failed: "
      [] kind = "unexpected"      -> "An unexpected server error occurred."
      [] OTHER                    -> ""

\* every failure inside the try block reported by the one malformed-output branch
CallAndParse_single(reply) ==
    CASE reply.kind = "text" -> ParseReply(reply.text)
      [] OTHER               -> ErrorResponse(500, "malformed")

\* lines 97-155: the try block, entered only with a client and a query
CallAndParse(reply) ==
    CASE reply.kind = "text"     -> ParseReply(reply.text)
      [] reply.kind = "APIError" -> ErrorResponse(500, "api_failed")
      [] OTHER                   -> ErrorResponse(500, "unexpected")

\* lines 17-28: the client is None exactly when genai.Client(...) raised; the
\* missing key only prints a warning
InitSearch ==
    /\ apiKeySet \in BOOLEAN
    /\ client \in BOOLEAN
    /\ request = [hasQuery |-> FALSE, query |-> ""]
    /\ modelReply = NoReply
    /\ response = NoResponse
    /\ searchCalls = 0
    /\ IdleClean /\ IdleAnalyze /\ IdleSave /\ IdleWorker

\* lines 78-155: one POST /search; the reply of the model is drawn only when
\* the handler reaches the call of line 121
search_jobs(data) ==
    /\ response.kind = "none"
    /\ request' = data
    /\ IF ~client
       THEN /\ response' = ErrorResponse(503, "not_initialized")
            /\ searchCalls' = searchCalls
            /\ modelReply' = NoReply
       ELSE IF IsEmptyQuery(QueryGet(data))
       THEN /\ response' = ErrorResponse(400, "empty_query")
            /\ searchCalls' = searchCalls
            /\ modelReply' = NoReply
       ELSE \E reply \in ModelReplies :
               /\ searchCalls' = searchCalls + 1
               /\ modelReply' = reply
               /\ response' = CallAndParse(reply)
    /\ UNCHANGED <<apiKeySet, client, cleanVars, retryVars, saveVars, workerVars>>

SearchJobs == \E data \in Requests : search_jobs(data)

(***************************************************************************)
(* POST /api/analyze (main.py)                                             *)
(***************************************************************************)
MAX_RETRIES == 5

\* the except clause widened to the validation error as well
MatchedErrors_all == {"APIError", "JSONDecodeError", "AttributeError", "ValidationError"}

\* line 128: the exception classes the retry loop catches
MatchedErrors == {"APIError", "JSONDecodeError", "AttributeError"}

\* exceptions an attempt can raise that line 128 does not name: the schema
\* validation of AnalysisResult(**result_data), any other error of the call
UnmatchedErrors == {"ValidationError", "OtherError"}

Scores == {1, 10}

\* what one pass through lines 110-126 does
AttemptOutcomes ==
    [kind : {"ok"}, value : Scores]
    \cup [kind : MatchedErrors \cup UnmatchedErrors, value : {0}]

\* the comparison of line 129 taken against MAX_RETRIES itself
ShouldRetry_late(a) == a < MAX_RETRIES

\* line 129
ShouldRetry(a) == a < MAX_RETRIES - 1

\* the exponent of line 130 taken from the attempt number counted from 1
wait_time_from_one(a) == 2 ^ (a + 1)

\* a linear backoff in place of the exponential one
wait_time_linear(a) == 2 * a

\* line 130
wait_time(a) == 2 ^ a

InitAnalyze ==
    /\ mainClient \in BOOLEAN
    /\ pc = "start"
    /\ attempt = 0
    /\ hist = <<>>
    /\ sleeps = <<>>
    /\ result = NoResult
    /\ IdleClean /\ IdleSearch /\ IdleSave /\ IdleWorker

\* lines 88-105: the client check before the loop
AnalyzeStart ==
    /\ pc = "start"
    /\ IF ~mainClient
       THEN /\ pc' = "done"
            /\ result' = [kind |-> "error_body", value |-> 0, cause |-> "none"]
       ELSE /\ pc' = "loop"
            /\ result' = result
    /\ UNCHANGED <<mainClient, attempt, hist, sleeps, cleanVars, searchVars, saveVars, workerVars>>

\* lines 109-138: one iteration of for attempt in range(MAX_RETRIES); when the
\* range is exhausted the function falls off its end and returns None
Attempt(o) ==
    /\ pc = "loop"
    /\ IF attempt >= MAX_RETRIES
       THEN /\ pc' = "done"
            /\ result' = [kind |-> "returned_none", value |-> 0, cause |-> "none"]
            /\ UNCHANGED <<attempt, hist, sleeps>>
       ELSE /\ hist' = Append(hist, o)
            /\ IF o.kind = "ok"
               THEN /\ pc' = "done"
                    /\ result' = [kind |-> "returned", value |-> o.value, cause |-> "none"]
                    /\ UNCHANGED <<attempt, sleeps>>
               ELSE IF o.kind \in MatchedErrors
               THEN IF ShouldRetry(attempt)
                    THEN /\ sleeps' = Append(sleeps, wait_time(attempt))
                         /\ attempt' = attempt + 1
                         /\ UNCHANGED <<pc, result>>
                    ELSE /\ pc' = "done"
                         /\ result' = [kind |-> "raised", value |-> 0, cause |-> o.kind]
                         /\ UNCHANGED <<attempt, sleeps>>
               ELSE /\ pc' = "done"
                    /\ result' = [kind |-> "propagated", value |-> 0, cause |-> o.kind]
                    /\ UNCHANGED <<attempt, sleeps>>
    /\ UNCHANGED <<mainClient, cleanVars, searchVars, saveVars, workerVars>>

AnalyzeJobLead == \E o \in AttemptOutcomes : Attempt(o)

(***************************************************************************)
(* save_to_firestore (job_finder.py)                                       *)
(***************************************************************************)
\* a lead record that carries a title: a JSON object with the key "title"
JTitled == [t |-> "obj_title", n |-> 0, items |-> <<>>]

\* lines 162-163: item assignment works on a dict only
IsDict(v) == v.t \in {"obj", "obj_title"}

\* lines 167, 170: lead['title']
HasTitle(v) == v.t = "obj_title"

\* lines 159-170: the loop from lead i on. A lead that is no dict raises at
\* line 162 and again in the handler at line 170; a dict is written (line
\* 166, outs[i] tells whether the write succeeds), and the print of line 167
\* or of line 170 then reads lead['title']
RECURSIVE SaveLoop(_, _, _, _)
SaveLoop(leads, outs, i, writes) ==
    IF i > Len(leads) THEN [ended |-> TRUE, writes |-> writes, raised |-> FALSE]
    ELSE IF ~IsDict(leads[i]) THEN [ended |-> TRUE, writes |-> writes, raised |-> TRUE]
    ELSE LET w == Append(writes, [lead |-> i, ok |-> outs[i]])
         IN  IF HasTitle(leads[i])
             THEN SaveLoop(leads, outs, i + 1, w)
             ELSE [ended |-> TRUE, writes |-> w, raised |-> TRUE]

\* lines 149-170 on a parsed JSON value: len() of line 154 raises for a
\* number, an empty object has nothing to iterate, the keys of any other
\* object are strings, an array is looped over
SaveRun(v, outs) ==
    CASE v.t = "arr" -> SaveLoop(v.items, outs, 1, <<>>)
      [] v.t = "obj" -> [ended |-> TRUE, writes |-> <<>>, raised |-> FALSE]
      [] OTHER       -> [ended |-> TRUE, writes |-> <<>>, raised |-> TRUE]

\* the lead records of a list: objects with and without a title
LeadRecords == {JTitled, JObj}

InitSave ==
    /\ jobLeads \in SeqsUpTo(LeadRecords, MaxLeads)
    /\ saved = NotSaved
    /\ IdleClean /\ IdleSearch /\ IdleAnalyze /\ IdleWorker

\* lines 149-170: one call of save_to_firestore, with any pattern of failing
\* document writes
save_to_firestore ==
    /\ ~saved.ended
    /\ \E outs \in [1..Len(jobLeads) -> BOOLEAN] :
          saved' = SaveRun(JArr(jobLeads), outs)
    /\ UNCHANGED <<jobLeads, cleanVars, searchVars, retryVars, workerVars>>

(***************************************************************************)
(* generate_job_leads (job_finder.py)                                      *)
(***************************************************************************)
JsonFence == Fence \o <<"j", "s", "o", "n">>

\* str.strip(chars): drops from both ends every character of the set
StripChars(s, cs) ==
    IF \A i \in 1..Len(s) : s[i] \in cs
    THEN <<>>
    ELSE LET first == CHOOSE i \in 1..Len(s) :
                         s[i] \notin cs /\ \A j \in 1..(i-1) : s[j] \in cs
             last  == CHOOSE i \in 1..Len(s) :
                         s[i] \notin cs /\ \A j \in (i+1)..Len(s) : s[j] \in cs
         IN  SubSeq(s, first, last)

\* lines 131-135: strip, and for a text that starts with the json fence strip
\* the characters of the fence from both ends
WorkerClean(t) ==
    LET raw == Strip(t)
    IN  IF StartsWith(raw, JsonFence)
        THEN Strip(StripChars(StripChars(raw, {Backtick, "j", "s", "o", "n"}), {Backtick}))
        ELSE raw

\* the reply texts of the worker: bare JSON text, or the text in a json fence.
\* JSON text over JsonAlphabet holds no keyed object, so the leads parsed
\* here are numbers, arrays and objects without a title
WorkerTexts ==
    ReplyBodies
    \cup {JsonFence \o <<"\n">> \o b \o <<"\n">> \o Fence : b \in ReplyBodies}

\* genai.Client raises (line 104), generate_content raises (line 116), the
\* response has no text (line 131), the response has text
WorkerReplies ==
    [kind : {"text"}, text : WorkerTexts]
    \cup [kind : {"client_error", "call_error", "no_text"}, text : {<<>>}]

\* a try block that ends before the parsing and saving of the reply
WorkerCatches_call(stage) == stage \in {"client", "call"}

\* lines 103-144: the try block covers every stage, and except Exception
\* catches what any of them raises
WorkerCatches(stage) == stage \in {"client", "call", "text", "parse", "save"}

\* the run ends with an exception raised at the stage
RunFailed(log, stage) == [ended |-> TRUE, log |-> log, raised |-> ~WorkerCatches(stage)]

WriteEvents(writes) ==
    [i \in 1..Len(writes) |-> IF writes[i].ok THEN "write_ok" ELSE "write_failed"]

\* lines 103-144 once the key check has passed
WorkerRunOf(reply, outs) ==
    CASE reply.kind = "client_error" -> RunFailed(<<"key_checked">>, "client")
      [] reply.kind = "call_error" -> RunFailed(<<"key_checked", "model_call">>, "call")
      [] reply.kind = "no_text" ->
            RunFailed(<<"key_checked", "model_call", "call_returned">>, "text")
      [] OTHER ->
            LET parsed == json_loads(WorkerClean(reply.text))
                sv == SaveRun(parsed.val, outs)
                log == <<"key_checked", "model_call", "call_returned", "parsed">>
                          \o WriteEvents(sv.writes)
            IN  IF ~parsed.ok
                THEN RunFailed(<<"key_checked", "model_call", "call_returned">>, "parse")
                ELSE IF sv.raised
                THEN RunFailed(log, "save")
                ELSE [ended |-> TRUE, log |-> log, raised |-> FALSE]

\* the number of leads the reply parses to
LeadCount(reply) ==
    LET parsed == json_loads(WorkerClean(reply.text))
    IN  IF reply.kind = "text" /\ parsed.ok THEN Len(parsed.val.items) ELSE 0

InitWorker ==
    /\ workerKeySet \in BOOLEAN
    /\ workerReply = NoReply
    /\ workerRun = NotRun
    /\ IdleClean /\ IdleSearch /\ IdleAnalyze /\ IdleSave

\* lines 90-144: one call of generate_job_leads
generate_job_leads ==
    /\ ~workerRun.ended
    /\ IF ~workerKeySet
       THEN /\ workerRun' = [ended |-> TRUE, log |-> <<>>, raised |-> FALSE]
            /\ workerReply' = NoReply
       ELSE \E reply \in WorkerReplies :
               \E outs \in [1..LeadCount(reply) -> BOOLEAN] :
                  /\ workerReply' = reply
                  /\ workerRun' = WorkerRunOf(reply, outs)
    /\ UNCHANGED <<workerKeySet, cleanVars, searchVars, retryVars, saveVars>>

(***************************************************************************)
(* Properties of clean_json_string (SpecClean)                             *)
(***************************************************************************)
Delimiters == {"[", "{"}

Contains(s, cs) == \E i \in 1..Len(s) : s[i] \in cs

HasFence(s) == \E i \in 1..(Len(s) - 2) : SubSeq(s, i, i + 2) = Fence

Unpadded(s) == s = <<>> \/ (s[1] \notin Whitespace /\ s[Len(s)] \notin Whitespace)

\* the fence is a line of its own, or the bare marker in front of a body
\* that has no line break
FenceLine(l, b) == l # <<>> /\ (l[Len(l)] = "\n" \/ ~Contains(b, {"\n"}))

\* C4 as stated: for every text wrapped in an opening fence (with an optional
\* language tag) and a closing fence, clean_json_string returns the text
\* between the fences, trimmed, and cleaning the result again changes nothing.
C4_FencesRemovedIdempotent ==
    (cleaned.done /\ FenceLine(lead, body))
    => /\ cleaned.once = Strip(body)
       /\ cleaned.twice = cleaned.once

\* C4 as amended: for every text made of an opening fence line, a body and a
\* closing fence, where the trimmed body neither begins nor ends with a
\* further fence marker and carries no preamble (it starts with [ or {, or
\* contains neither), clean_json_string returns the trimmed body, and
\* cleaning the result again changes nothing.
C4_FencedBodyCleaned ==
    (/\ cleaned.done
     /\ FenceLine(lead, body)
     /\ ~StartsWith(Strip(body), Fence)
     /\ ~EndsWith(Strip(body), Fence)
     /\ \/ ~Contains(Strip(body), Delimiters)
        \/ Strip(body)[1] \in Delimiters)
    => /\ cleaned.once = Strip(body)
       /\ cleaned.twice = cleaned.once

C4_Witness ==
    /\ cleaned.done
    /\ lead = Fence \o <<"j", "\n">>
    /\ body # Strip(body)
    /\ Len(Strip(body)) >= 2
    /\ Strip(body)[1] = "["
    /\ ~EndsWith(Strip(body), Fence)
    /\ cleaned.once = Strip(body)

\* what is left of the text after trimming and fence removal
Unfenced(t) == StripTrailingFence(StripLeadingFence(Strip(t)))

FirstDelimiter(t) ==
    CHOOSE i \in 1..Len(t) : t[i] \in Delimiters /\ \A j \in 1..(i-1) : t[j] \notin Delimiters

\* C5: when the text, after trimming and fence removal, does not start with
\* [ or { but contains at least one of them, clean_json_string returns it
\* sliced from the first occurrence of either, so the result starts with
\* [ or {; also when only one of the two occurs.
C5_SlicedAtFirstDelimiter ==
    (/\ cleaned.done
     /\ Unfenced(text) # <<>>
     /\ Unfenced(text)[1] \notin Delimiters
     /\ Contains(Unfenced(text), Delimiters))
    => /\ cleaned.once = Strip(SubSeq(Unfenced(text), FirstDelimiter(Unfenced(text)), Len(Unfenced(text))))
       /\ cleaned.once[1] \in Delimiters

\* C6: a text without surrounding whitespace and without fence marker that
\* starts with [ or {, or contains neither of them, is returned unchanged.
C6_CleanTextUnchanged ==
    (/\ cleaned.done
     /\ Unpadded(text)
     /\ ~HasFence(text)
     /\ \/ ~Contains(text, Delimiters)
        \/ text[1] \in Delimiters)
    => cleaned.once = text

C6_Witness ==
    /\ cleaned.done
    /\ Len(text) >= 3
    /\ text[1] = "["
    /\ Contains(text, {"{"})
    /\ Contains(text, {" "})
    /\ Unpadded(text)
    /\ ~HasFence(text)
    /\ cleaned.once = text

(***************************************************************************)
(* Properties of POST /search (SpecSearch)                                 *)
(***************************************************************************)
Answered == response.kind # "none"

QueryMissingOrEmpty == ~request.hasQuery \/ request.query = ""

\* the value the text of the reply cleans and parses to
ParsedReply == json_loads(clean_json_string(modelReply.text))

ArrayOfObjects(v) == v.t = "arr" /\ \A i \in 1..Len(v.items) : v.items[i].t = "obj"

\* C7: with an initialised client, a request whose query is empty or absent
\* is answered with status 400 and an error body, and no call to the model
\* is made for it.
C7_EmptyQueryRejected ==
    (Answered /\ client /\ QueryMissingOrEmpty)
    => /\ response.status = 400
       /\ response.kind = "empty_query"
       /\ searchCalls = 0
       /\ modelReply = NoReply

C7_Witness == response.status = 400 /\ client /\ ~request.hasQuery /\ searchCalls = 0

\* C8: when the process started without GEMINI_API_KEY, every POST /search,
\* whatever its body, is answered with status 503 and no call to the model
\* is made.
C8_MissingKeyUnavailable ==
    (Answered /\ ~apiKeySet)
    => /\ response.status = 503
       /\ searchCalls = 0

\* C9: with an initialised client and a non-empty query, when the text of the
\* reply cleans and parses to an array of n elements, the handler makes
\* exactly one model call and answers with success, the jobs being that
\* array and the message counting n leads.
C9_SuccessCountsLeads ==
    /\ (Answered /\ client /\ ~QueryMissingOrEmpty /\ modelReply.kind = "text"
          /\ ParsedReply.ok /\ ParsedReply.val.t = "arr")
        => /\ response.status = 200
           /\ response.jobs = ParsedReply.val.items
           /\ response.found = Len(response.jobs)
           /\ searchCalls = 1
    /\ (Answered /\ modelReply.kind = "text"
          /\ modelReply.text = Fence \o <<"j", "\n", "[", "1", ",", "1", "]", "\n">> \o Fence)
        => /\ response.status = 200
           /\ response.jobs = <<JNum(1), JNum(1)>>
           /\ response.found = 2

C9_Witness ==
    /\ response.status = 200
    /\ response.found = 2
    /\ StartsWith(modelReply.text, Fence)
    /\ searchCalls = 1

\* C10: a success response is given only when the parsed output is an array
\* whose elements are all objects; output that parses as JSON but is not an
\* array of objects is answered with the malformed-output error, status 500.
C10_SuccessOnlyArrayOfObjects ==
    Answered
    => /\ response.status = 200 => \A i \in 1..Len(response.jobs) : response.jobs[i].t = "obj"
       /\ (modelReply.kind = "text" /\ ParsedReply.ok /\ ~ArrayOfObjects(ParsedReply.val))
           => (response.status = 500 /\ response.kind = "malformed")

\* C11: every POST /search ends in one outcome, told apart by status and
\* message: 503 for a missing client, 400 for an empty query, 500 with the
\* malformed-output message exactly when the model returned text that fails
\* to parse or is not an array, and 500 with another message when the model
\* call itself fails; neither kind of failure bears the message of the other.
C11_OutcomesDistinct ==
    Answered
    => /\ response.kind \in {"ok", "not_initialized", "empty_query", "malformed", "api_failed", "unexpected"}
       /\ response.status = 200 <=> response.kind = "ok"
       /\ response.status = 503 <=> ~client
       /\ response.status = 503 <=> response.kind = "not_initialized"
       /\ response.status = 400 <=> (client /\ QueryMissingOrEmpty)
       /\ response.status = 400 <=> response.kind = "empty_query"
       /\ response.status = 500 <=> response.kind \in {"malformed", "api_failed", "unexpected"}
       /\ response.kind = "malformed"
            <=> (modelReply.kind = "text" /\ ~(ParsedReply.ok /\ ParsedReply.val.t = "arr"))
       /\ modelReply.kind \in {"APIError", "OtherError"}
            => /\ response.status = 500
               /\ response.kind \in {"api_failed", "unexpected"}
               /\ ErrorMessage(response.kind) # ErrorMessage("malformed")
       /\ response.kind = "malformed"
            => /\ ErrorMessage(response.kind) # ErrorMessage("api_failed")
               /\ ErrorMessage(response.kind) # ErrorMessage("unexpected")
       /\ searchCalls = (IF response.status \in {503, 400} THEN 0 ELSE 1)

C11_Witness ==
    /\ response.status = 500
    /\ response.kind = "malformed"
    /\ modelReply.kind = "text"
    /\ ParsedReply.ok
    /\ ParsedReply.val.t = "obj"

(***************************************************************************)
(* Properties of the retry loop of analyze_job_lead (SpecAnalyze)          *)
(***************************************************************************)
Kinds(h) == {h[i].kind : i \in DOMAIN h}

AllButLast(h) == SubSeq(h, 1, Len(h) - 1)

\* the sleeps 1, 2, 4, ... of k failed attempts
Backoffs(k) == [i \in 1..k |-> 2 ^ (i - 1)]

\* C1: when every model call fails with a matched error class, the handler
\* raises the terminal error after exactly MAX_RETRIES = 5 calls, having slept
\* 1, 2, 4 and 8 seconds after the first four failures and not after the
\* fifth; it is still retrying before the fifth failure and never makes a
\* sixth call.
C1_RaisesAfterMaxRetries ==
    /\ Len(hist) <= 5
    /\ (pc \in {"loop", "done"} /\ Kinds(hist) \subseteq {"APIError", "JSONDecodeError", "AttributeError"})
         => IF Len(hist) = 5
            THEN /\ pc = "done"
                 /\ result.kind = "raised"
                 /\ result.cause = hist[5].kind
                 /\ sleeps = <<1, 2, 4, 8>>
            ELSE /\ pc = "done" => ~mainClient
                 /\ result.kind \in {"none", "error_body"}
                 /\ Len(sleeps) = Len(hist)
    /\ result.kind = "raised" => Len(hist) = 5

C1_Witness == result.kind = "raised" /\ Len(hist) = 5 /\ sleeps = <<1, 2, 4, 8>>

\* C2: for every k < 5, when the model call fails k times with a matched
\* error class and then succeeds, the handler returns the value of the
\* successful call after exactly k+1 calls and exactly k sleeps, of 2^0, ...,
\* 2^(k-1) seconds, each longer than the one before.
C2_ReturnsAfterKFailures ==
    (/\ hist # <<>>
     /\ hist[Len(hist)].kind = "ok"
     /\ Kinds(AllButLast(hist)) \subseteq {"APIError", "JSONDecodeError", "AttributeError"})
    => /\ Len(hist) - 1 < 5
       /\ pc = "done"
       /\ result.kind = "returned"
       /\ result.value = hist[Len(hist)].value
       /\ sleeps = Backoffs(Len(hist) - 1)
       /\ \A i \in 1..(Len(sleeps) - 1) : sleeps[i] < sleeps[i + 1]

C2_Witness ==
    /\ Len(hist) = 3
    /\ hist[1].kind = "APIError" /\ hist[2].kind = "JSONDecodeError" /\ hist[3].kind = "ok"
    /\ result.kind = "returned"
    /\ sleeps = <<1, 2>>

\* C3: an exception outside the matched set propagates at once: the call that
\* raised it is the last call, no sleep follows it, and the handler ends by
\* raising that exception, whatever the attempt number.
C3_UnmatchedPropagates ==
    \A i \in 1..Len(hist) :
        hist[i].kind \in {"ValidationError", "OtherError"}
        => /\ i = Len(hist)
           /\ pc = "done"
           /\ result.kind = "propagated"
           /\ result.cause = hist[i].kind
           /\ Len(sleeps) = i - 1

C3_Witness ==
    /\ Len(hist) = 3
    /\ hist[3].kind = "ValidationError"
    /\ result.kind = "propagated"
    /\ sleeps = <<1, 2>>

RECURSIVE Sum(_)
Sum(s) == IF s = <<>> THEN 0 ELSE s[1] + Sum(Tail(s))

LastKind(h) == h[Len(h)].kind

\* what C13 says of every state of analyze_job_lead
C13_Bounded ==
    /\ result.kind # "returned_none"
    /\ Len(hist) <= 5
    /\ Sum(sleeps) <= 15
    /\ pc # "done" => result.kind = "none"
    /\ pc = "done"
         => \/ result.kind = "error_body" /\ ~mainClient /\ hist = <<>>
            \/ result.kind = "returned" /\ mainClient /\ hist # <<>> /\ LastKind(hist) = "ok"
            \/ /\ result.kind \in {"raised", "propagated"}
               /\ mainClient /\ hist # <<>> /\ LastKind(hist) # "ok"
    /\ ~mainClient => hist = <<>>

\* C13: every execution of analyze_job_lead terminates, whatever the model
\* calls do, in one of three ways: the client-not-initialised error after no
\* model call, an AnalysisResult, or an exception; it never falls off the end
\* of the retry loop, makes at most 5 model calls and sleeps at most
\* 1+2+4+8 = 15 seconds in total.
C13_TerminatesOneWay == [](C13_Bounded) /\ <>(pc = "done")

C13_Witness ==
    /\ pc = "done"
    /\ result.kind = "raised"
    /\ Len(hist) = 5
    /\ Sum(sleeps) = 15

(***************************************************************************)
(* Properties of save_to_firestore (SpecSave)                              *)
(***************************************************************************)
\* C12: for any list of lead records, whatever their fields, and any pattern
\* of failing writes, exactly one write is attempted for each lead, in list
\* order, a failed write never prevents the attempts for the later leads, and
\* save_to_firestore does not raise.
C12_EveryLeadAttempted ==
    saved.ended
    => /\ Len(saved.writes) = Len(jobLeads)
       /\ \A i \in 1..Len(saved.writes) : saved.writes[i].lead = i
       /\ ~saved.raised

(***************************************************************************)
(* Properties of generate_job_leads (SpecWorker)                           *)
(***************************************************************************)
Writes == {"write_ok", "write_failed"}

Count(log, events) == Cardinality({i \in 1..Len(log) : log[i] \in events})

\* C14: a document write happens only after the key check passed, the single
\* model call returned and its text parsed, in that order; without the key
\* there is neither a model call nor a write; a failed model call or a parse
\* failure leads to no write; generate_job_leads never raises to its caller.
C14_WritesOnlyAfterParse ==
    workerRun.ended
    => /\ ~workerRun.raised
       /\ ~workerKeySet => workerRun.log = <<>>
       /\ Count(workerRun.log, {"model_call"}) <= 1
       /\ \A i \in 1..Len(workerRun.log) :
             workerRun.log[i] \in Writes
             => \E a, b, c, d \in 1..(i - 1) :
                   /\ a < b /\ b < c /\ c < d
                   /\ workerRun.log[a] = "key_checked"
                   /\ workerRun.log[b] = "model_call"
                   /\ workerRun.log[c] = "call_returned"
                   /\ workerRun.log[d] = "parsed"
       /\ workerReply.kind \in {"client_error", "call_error", "no_text"}
             => Count(workerRun.log, Writes) = 0
       /\ (workerReply.kind = "text" /\ ~json_loads(WorkerClean(workerReply.text)).ok)
             => Count(workerRun.log, Writes \cup {"parsed"}) = 0

C14_Witness ==
    /\ workerRun.ended
    /\ ~workerRun.raised
    /\ workerKeySet
    /\ StartsWith(workerReply.text, JsonFence)
    /\ Count(workerRun.log, {"write_ok"}) = 1

(***************************************************************************)
(* Specifications: one per service, the other services idle                *)
(***************************************************************************)
NextClean == Clean

SpecClean == InitClean /\ [][NextClean]_vars

NextSearch == SearchJobs

SpecSearch == InitSearch /\ [][NextSearch]_vars

NextAnalyze == AnalyzeStart \/ AnalyzeJobLead

SpecAnalyze == InitAnalyze /\ [][NextAnalyze]_vars

NextSave == save_to_firestore

SpecSave == InitSave /\ [][NextSave]_vars

NextWorker == generate_job_leads

SpecWorker == InitWorker /\ [][NextWorker]_vars

\* the handler runs on: the client check is taken, and every model call
\* returns or raises
FairSpecAnalyze ==
    SpecAnalyze /\ WF_vars(AnalyzeStart) /\ WF_vars(AnalyzeJobLead)

====
